---------------------------- MODULE Spec2Model ----------------------------
(***************************************************************************)
(* Post-fire vegetation recovery: the rule set that generate_model writes  *)
(* (src/run_scenarios.py:56-240) read as a state machine for one patch,    *)
(* and the scenario orchestration of main / run_scenario / combine_results *)
(* (src/run_scenarios.py:243-337).                                         *)
(*                                                                         *)
(* Reading of the generated rules:                                         *)
(*  - X.init handlers run when the entity is created, X.start / X.step /   *)
(*    X.end handlers run once per timestep in that order;                  *)
(*  - prior.X is the value X had at the end of the previous timestep, a    *)
(*    plain X or current.X is the value of this timestep, here.X is the    *)
(*    value of the enclosing patch in this timestep;                       *)
(*  - organisms are entities with identity: a collection holds references, *)
(*    the attributes live with the organism;                               *)
(*  - whether the patch's step handlers read the organisms before or after *)
(*    the organisms' own step handlers ran is decided by the engine, which *)
(*    is not part of the repository: evalOrder keeps both outcomes.        *)
(* Percentages are whole percents, fire severity and its thresholds are    *)
(* tenths, the suppression coefficient is hundredths; quotients round down.*)
(***************************************************************************)
EXTENDS Integers, Sequences, FiniteSets

VARIABLES
  \* ---- one patch of one scenario run by the engine
  simPhase,           \* "new" before the patch's init handlers, then "run"
  scen,               \* index into SCENARIOS of the scenario being simulated
  evalOrder,          \* "patchFirst" | "organismFirst" (engine-defined)
  fireSeverity,       \* patch attribute fireSeverity
  seedingBoost,       \* patch attribute seedingBoost
  org,                \* every NativeTree organism created so far, by identity:
                      \* its attributes age, state, alive
  born,               \* the organisms the last event created, as their init handlers
                      \* left them (with fireDeathRoll and fireMortality, which no
                      \* later rule reads)
  deathRoll,          \* deathRoll of the last step event, by position in stepTrees
  NativeTree,         \* patch attribute NativeTree at the end of the last event: organism ids
  stepTrees,          \* NativeTree as of the last start event: the living population of the step
  invasiveCover,      \* patch attribute invasiveCover
  rawCover,           \* patch attribute rawCover
  stepCount,          \* patch attribute stepCount
  numAdults, numTrees, roomForSeedlings, actualNewSeedlings,
  postFireBonus, activeRemoval,
  twin,               \* a second patch, of the scenario that differs from scen's in
                      \* seeding_boost only, run beside the first on the same draws:
                      \* its scenario and its attributes
  \* ---- main, run_scenario and combine_results
  pc,                 \* where main is: "start", "loop", "done", "aborted" (uncaught exception);
                      \* "combine" and "pool": before a call of combine_results alone, and
                      \* while the run_scenario calls run side by side
  paramKeys,          \* the keys of the dictionary parse_jshc returned
  idx,                \* position of the for loop of main in SCENARIOS
  success_count,      \* main's success_count
  modelFiles,         \* scenario names whose /workspace/scenario_<name>.josh this run wrote
  engineCalls,        \* the subprocess.run calls made so far: scenario name and exit code
  resultFiles,        \* RESULTS_DIR/<name>_0.csv by scenario name: NoFile or header and rows
  combined,           \* RESULTS_DIR/all_scenarios_combined.csv: NoFile or header and rows
  warned,             \* the scenario names of the "Warning: ... not found" lines printed
  modelStore,         \* the model files by path: NoFile or the model written there
  task                \* by scenario name, a run_scenario call running beside the others:
                      \* its position, the model its engine read, the exit code

simVars == <<simPhase, scen, evalOrder, fireSeverity, org, born, deathRoll, NativeTree, stepTrees,
             invasiveCover, rawCover, stepCount, numAdults, numTrees,
             roomForSeedlings, actualNewSeedlings, postFireBonus, activeRemoval,
             seedingBoost, twin>>

orchVars == <<pc, paramKeys, idx, success_count, modelFiles, engineCalls,
              resultFiles, combined, warned, modelStore, task>>

vars == <<simVars, orchVars>>

-----------------------------------------------------------------------------
\* Bounds of the model
totalSteps == 2        \* steps.high: the step horizon of a run
MaxOrgs == 4           \* organisms created in one patch over a run
MaxRows == 2           \* rows of one scenario's output file

\* mutant of SCENARIOS: the seeding scenarios are declared with a removal
\* effort of their own
SCENARIOS_SeedingRemoves ==
  << [name |-> "baseline",     has_fire |-> FALSE, seeding_boost |-> 0, removal_effort |-> 0],
     [name |-> "fire_only",    has_fire |-> TRUE,  seeding_boost |-> 0, removal_effort |-> 0],
     [name |-> "fire_seeding", has_fire |-> TRUE,  seeding_boost |-> 8, removal_effort |-> 12],
     [name |-> "fire_removal", has_fire |-> TRUE,  seeding_boost |-> 0, removal_effort |-> 12],
     [name |-> "fire_both",    has_fire |-> TRUE,  seeding_boost |-> 8, removal_effort |-> 0] >>

\* SCENARIOS: (name, has_fire, seeding_boost, removal_effort)
SCENARIOS ==
  << [name |-> "baseline",     has_fire |-> FALSE, seeding_boost |-> 0, removal_effort |-> 0],
     [name |-> "fire_only",    has_fire |-> TRUE,  seeding_boost |-> 0, removal_effort |-> 0],
     [name |-> "fire_seeding", has_fire |-> TRUE,  seeding_boost |-> 8, removal_effort |-> 0],
     [name |-> "fire_removal", has_fire |-> TRUE,  seeding_boost |-> 0, removal_effort |-> 12],
     [name |-> "fire_both",    has_fire |-> TRUE,  seeding_boost |-> 8, removal_effort |-> 12] >>

\* The parameter set parse_jshc returns, as generate_model extracts it.
\* highSeverityThreshold / mediumSeverityThreshold in tenths, treeSuppression
\* in hundredths, everything else in the unit of the configuration.
params ==
  [ initialTreesPerPatch |-> 1, maxTreesPerPatch |-> 3,
    seedlingToJuvenileAge |-> 2, juvenileToAdultAge |-> 3,
    seedlingBaseMortality |-> 0, juvenileBaseMortality |-> 20, adultBaseMortality |-> 10,
    seedlingInvasivePressure |-> 20, invasivePressureThreshold |-> 40,
    fireHighSeedling |-> 90, fireHighJuvenile |-> 70, fireHighAdult |-> 50,
    fireMediumSeedling |-> 60, fireMediumJuvenile |-> 40, fireMediumAdult |-> 20,
    fireLowSeedling |-> 30, fireLowJuvenile |-> 20, fireLowAdult |-> 10,
    highSeverityThreshold |-> 8, mediumSeverityThreshold |-> 5,
    baselineInvasiveCover |-> 5,
    fireHighInvasiveCover |-> 60, fireMediumInvasiveCover |-> 40, fireLowInvasiveCover |-> 0,
    establishmentThreshold |-> 50,
    invasiveBaseGrowthRate |-> 10, postFireGrowthBonus |-> 110, postFireBonusDuration |-> 2,
    treeSuppression |-> 300, removalDuration |-> 2,
    initialAgeMin |-> 0, initialAgeMax |-> 3 ]

\* The external fire-severity raster: one scalar per patch (tenths). The values
\* sit on both thresholds and on either side of them.
SeverityData == {params.mediumSeverityThreshold, params.highSeverityThreshold,
                 params.highSeverityThreshold + 1}

\* "sample uniform from 0 percent to 100 percent": the two ends and a value on a
\* mortality percentage.
Rolls == {0, 20, 100}

\* "sample uniform from {age_min} years to {age_max} years"
InitialAges == params.initialAgeMin .. params.initialAgeMax

has_fire == SCENARIOS[scen].has_fire
removal_effort == SCENARIOS[scen].removal_effort
seeding_boost == SCENARIOS[scen].seeding_boost

-----------------------------------------------------------------------------
\* organism NativeTree: init handlers

\* state.init
StateInit(age) ==
  IF age >= params.juvenileToAdultAge THEN "Adult"
  ELSE IF age >= params.seedlingToJuvenileAge THEN "Juvenile" ELSE "Seedling"

\* mutant of FireMortalityFire: the comparisons with the thresholds are not strict
FireMortalityFire_NotStrict(sev, state) ==
  IF sev >= params.highSeverityThreshold
  THEN (IF state = "Seedling" THEN params.fireHighSeedling
        ELSE IF state = "Juvenile" THEN params.fireHighJuvenile ELSE params.fireHighAdult)
  ELSE IF sev >= params.mediumSeverityThreshold
  THEN (IF state = "Seedling" THEN params.fireMediumSeedling
        ELSE IF state = "Juvenile" THEN params.fireMediumJuvenile ELSE params.fireMediumAdult)
  ELSE (IF state = "Seedling" THEN params.fireLowSeedling
        ELSE IF state = "Juvenile" THEN params.fireLowJuvenile ELSE params.fireLowAdult)

\* fireMortality.init with fire: the nine-branch conditional, in the order written
FireMortalityFire(sev, state) ==
  IF sev > params.highSeverityThreshold /\ state = "Seedling" THEN params.fireHighSeedling
  ELSE IF sev > params.highSeverityThreshold /\ state = "Juvenile" THEN params.fireHighJuvenile
  ELSE IF sev > params.highSeverityThreshold /\ state = "Adult" THEN params.fireHighAdult
  ELSE IF sev > params.mediumSeverityThreshold /\ state = "Seedling" THEN params.fireMediumSeedling
  ELSE IF sev > params.mediumSeverityThreshold /\ state = "Juvenile" THEN params.fireMediumJuvenile
  ELSE IF sev > params.mediumSeverityThreshold /\ state = "Adult" THEN params.fireMediumAdult
  ELSE IF state = "Seedling" THEN params.fireLowSeedling
  ELSE IF state = "Juvenile" THEN params.fireLowJuvenile
  ELSE params.fireLowAdult

\* fireMortality.init: the expression generate_model picks by has_fire
FireMortality(fire, sev, state) ==
  IF fire THEN FireMortalityFire(sev, state) ELSE 0

\* alive.init = fireDeathRoll > fireMortality
AliveInit(roll, mortality) == roll > mortality

\* "create ... of NativeTree": one organism from its sampled age and fire roll
CreateTree(fire, sev, age, roll) ==
  [ age |-> age,
    state |-> StateInit(age),
    fireDeathRoll |-> roll,
    fireMortality |-> FireMortality(fire, sev, StateInit(age)),
    alive |-> AliveInit(roll, FireMortality(fire, sev, StateInit(age))) ]

\* n organisms created with ages[i], rolls[i]
CreateTrees(fire, sev, n, ages, rolls) ==
  [i \in 1..n |-> CreateTree(fire, sev, ages[i], rolls[i])]

\* the attributes of the created organisms that later events read
Attributes(created) ==
  [i \in 1..Len(created) |->
     [age |-> created[i].age, state |-> created[i].state, alive |-> created[i].alive]]

-----------------------------------------------------------------------------
\* patch Default: init handlers

\* fireSeverity.init: "external data" with fire, 0 without
FireSeverityInit(fire, external) == IF fire THEN external ELSE 0

\* mutant of InvasiveInit: the comparisons with the thresholds are not strict
InvasiveInit_NotStrict(fire, sev) ==
  IF fire
  THEN IF sev >= params.highSeverityThreshold THEN params.fireHighInvasiveCover
       ELSE IF sev >= params.mediumSeverityThreshold THEN params.fireMediumInvasiveCover
       ELSE params.fireLowInvasiveCover
  ELSE params.baselineInvasiveCover

\* invasiveCover.init
InvasiveInit(fire, sev) ==
  IF fire
  THEN IF sev > params.highSeverityThreshold THEN params.fireHighInvasiveCover
       ELSE IF sev > params.mediumSeverityThreshold THEN params.fireMediumInvasiveCover
       ELSE params.fireLowInvasiveCover
  ELSE params.baselineInvasiveCover

\* the second patch before its init event
TwinIdle ==
  [ scen |-> 1, seedingBoost |-> 0, fireSeverity |-> 0, org |-> << >>,
    NativeTree |-> << >>, stepTrees |-> << >>, invasiveCover |-> 0, rawCover |-> 0,
    stepCount |-> 0, numAdults |-> 0, numTrees |-> 0, actualNewSeedlings |-> 0,
    postFireBonus |-> 0, activeRemoval |-> 0 ]

SimInit ==
  /\ simPhase = "new"
  /\ scen \in DOMAIN SCENARIOS
  /\ evalOrder \in {"patchFirst", "organismFirst"}
  /\ fireSeverity = 0
  /\ seedingBoost = 0
  /\ twin = TwinIdle
  /\ org = << >>
  /\ born = << >>
  /\ deathRoll = << >>
  /\ NativeTree = << >>
  /\ stepTrees = << >>
  /\ invasiveCover = 0
  /\ rawCover = 0
  /\ stepCount = 0
  /\ numAdults = 0 /\ numTrees = 0 /\ roomForSeedlings = 0 /\ actualNewSeedlings = 0
  /\ postFireBonus = 0 /\ activeRemoval = 0

\* The patch's init event: fireSeverity.init, NativeTree.init, invasiveCover.init,
\* stepCount.init
PatchInit ==
  /\ simPhase = "new"
  /\ \E external \in SeverityData,
        ages \in [1..params.initialTreesPerPatch -> InitialAges],
        rolls \in [1..params.initialTreesPerPatch -> Rolls] :
       LET sev == FireSeverityInit(has_fire, external) IN
       /\ fireSeverity' = sev
       /\ seedingBoost' = seeding_boost
       /\ born' = CreateTrees(has_fire, sev, params.initialTreesPerPatch, ages, rolls)
       /\ org' = Attributes(born')
       /\ NativeTree' = [i \in 1..params.initialTreesPerPatch |-> i]
       /\ invasiveCover' = InvasiveInit(has_fire, sev)
  /\ simPhase' = "run"
  /\ stepCount' = 0
  /\ UNCHANGED <<scen, evalOrder, deathRoll, stepTrees, rawCover, numAdults, numTrees,
                 roomForSeedlings, actualNewSeedlings, postFireBonus, activeRemoval>>

-----------------------------------------------------------------------------
\* organism NativeTree: step handlers. The handlers of the state the organism
\* is in when the step begins are the ones that run.

\* Seedling: totalMortality.step = baseMortality + invasivePressure
SeedlingTotalMortality(cover) ==
  params.seedlingBaseMortality
    + (IF cover > params.invasivePressureThreshold THEN params.seedlingInvasivePressure ELSE 0)

\* the mortality percentage the state's alive.step compares the roll with
StepMortality(state, cover) ==
  IF state = "Seedling" THEN SeedlingTotalMortality(cover)
  ELSE IF state = "Juvenile" THEN params.juvenileBaseMortality
  ELSE params.adultBaseMortality

\* mutant of AliveStep: a draw equal to the mortality survives
AliveStep_NotStrict(roll, mortality) == roll >= mortality

\* alive.step = deathRoll > mortality
AliveStep(roll, mortality) == roll > mortality

\* mutant of StateStep: the transition does not look at current.alive
StateStep_IgnoreAlive(state, age, alive) ==
  IF state = "Seedling" /\ age >= params.seedlingToJuvenileAge THEN "Juvenile"
  ELSE IF state = "Juvenile" /\ age >= params.juvenileToAdultAge THEN "Adult"
  ELSE state

\* mutant of StateStep: the age has to exceed the threshold
StateStep_Late(state, age, alive) ==
  IF state = "Seedling" /\ age > params.seedlingToJuvenileAge /\ alive THEN "Juvenile"
  ELSE IF state = "Juvenile" /\ age > params.juvenileToAdultAge /\ alive THEN "Adult"
  ELSE state

\* state.step:if(current.age >= threshold and current.alive == true)
StateStep(state, age, alive) ==
  IF state = "Seedling" /\ age >= params.seedlingToJuvenileAge /\ alive THEN "Juvenile"
  ELSE IF state = "Juvenile" /\ age >= params.juvenileToAdultAge /\ alive THEN "Adult"
  ELSE state

\* one organism's step event: age.step, alive.step, state.step, given its deathRoll.step
TreeStep(o, roll, cover) ==
  [ o EXCEPT !.age = o.age + 1,
             !.alive = AliveStep(roll, StepMortality(o.state, cover)),
             !.state = StateStep(o.state, o.age + 1,
                                 AliveStep(roll, StepMortality(o.state, cover))) ]

-----------------------------------------------------------------------------
\* patch Default: start, step and end handlers

\* mutant of NativeTreeStart: the filter on alive is missing
NativeTreeStart_NoFilter(coll, store) == coll

\* NativeTree.start = prior.NativeTree[prior.NativeTree.alive == true]
NativeTreeStart(coll, store) == SelectSeq(coll, LAMBDA i : store[i].alive)

\* count(NativeTree[NativeTree.state == s])
CountState(coll, store, s) == Len(SelectSeq(coll, LAMBDA i : store[i].state = s))

\* roomForSeedlings.step
RoomForSeedlings(nTrees) == params.maxTreesPerPatch - nTrees

\* mutant of PotentialSeedlings: canEstablish is not consulted
PotentialSeedlings_NoThreshold(nAdults, nTrees, cover) ==
  IF RoomForSeedlings(nTrees) > 0 THEN nAdults ELSE 0

\* potentialSeedlings.step (hasRoom.step and canEstablish.step inline)
PotentialSeedlings(nAdults, nTrees, cover) ==
  IF cover < params.establishmentThreshold /\ RoomForSeedlings(nTrees) > 0
  THEN nAdults ELSE 0

\* mutant of LimitedSeedlings: the room left is not a cap
LimitedSeedlings_NoCap(nAdults, nTrees, cover) ==
  PotentialSeedlings(nAdults, nTrees, cover)

\* limitedSeedlings.step
LimitedSeedlings(nAdults, nTrees, cover) ==
  IF PotentialSeedlings(nAdults, nTrees, cover) < RoomForSeedlings(nTrees)
  THEN PotentialSeedlings(nAdults, nTrees, cover)
  ELSE RoomForSeedlings(nTrees)

\* actualNewSeedlings.step
ActualNewSeedlings(nAdults, nTrees, cover) ==
  IF LimitedSeedlings(nAdults, nTrees, cover) > 0
  THEN LimitedSeedlings(nAdults, nTrees, cover) ELSE 0

\* mutant of PostFireBonus: the no-fire branch is not taken
PostFireBonus_AlwaysFire(fire, count) ==
  IF count < params.postFireBonusDuration THEN params.postFireGrowthBonus ELSE 0

\* postFireBonus.step: the expression generate_model picks by has_fire
PostFireBonus(fire, count) ==
  IF fire
  THEN IF count < params.postFireBonusDuration THEN params.postFireGrowthBonus ELSE 0
  ELSE 0

\* mutant of ActiveRemoval: the window includes stepCount = removalDuration
ActiveRemoval_Inclusive(effort, count) ==
  IF count <= params.removalDuration THEN effort ELSE 0

\* activeRemoval.step
ActiveRemoval(effort, count) == IF count < params.removalDuration THEN effort ELSE 0

\* treeSuppression.step, as a numerator over 100 * maxTreesPerPatch
TreeSuppression(nTrees) == IF nTrees > 0 THEN params.treeSuppression * nTrees ELSE 0

\* rawCover.step = prior.invasiveCover + netGrowth, with
\*   growthRate = (base + postFireBonus) * (1 - treeSuppression)
\*   netGrowth  = growthRate * (1 - prior.invasiveCover / 100) - activeRemoval
RawCover(prior, nTrees, bonus, removal) ==
  prior
  + ( (params.invasiveBaseGrowthRate + bonus)
        * (100 * params.maxTreesPerPatch - TreeSuppression(nTrees))
        * (100 - prior) ) \div (100 * params.maxTreesPerPatch * 100)
  - removal

\* mutant of InvasiveCoverStep: the lower clamp is missing
InvasiveCoverStep_NoFloor(raw) == IF raw > 100 THEN 100 ELSE raw

\* invasiveCover.step: 0 if rawCover < 0, 100 if rawCover > 100, else rawCover
InvasiveCoverStep(raw) == IF raw < 0 THEN 0 ELSE IF raw > 100 THEN 100 ELSE raw

\* numAdults.step = count(NativeTree[NativeTree.state == "Adult"]); the states
\* read are those before or after the organisms' own step, by evalOrder
NumAdults(coll, before, after) ==
  IF evalOrder = "patchFirst" THEN CountState(coll, before, "Adult")
  ELSE CountState(coll, after, "Adult")

\* mutant of KeepPrior: an attribute without a step handler has no value (0)
\* after the init event
KeepPrior_Reset(value) == 0

\* a patch attribute with an init handler only (seedingBoost, removalEffort,
\* fireSeverity): no later event assigns it
KeepPrior(value) == value

\* One timestep of the patch: the start event (NativeTree.start), the step
\* event of the patch and of every organism of the collection, and the end
\* event (NativeTree.end = prior.NativeTree | create actualNewSeedlings of NativeTree).
Step ==
  /\ simPhase = "run"
  /\ stepCount < totalSteps
  /\ LET living == NativeTreeStart(NativeTree, org)
         count == stepCount + 1
         bonus == PostFireBonus(has_fire, count)
         removal == ActiveRemoval(removal_effort, count)
         nTrees == Len(living)
         raw == RawCover(invasiveCover, nTrees, bonus, removal)
         cover == InvasiveCoverStep(raw)
     IN
     \E rolls \in [1..Len(living) -> Rolls] :
       LET stepped == [i \in 1..Len(org) |->
                         IF \E k \in 1..Len(living) : living[k] = i
                         THEN TreeStep(org[i],
                                rolls[CHOOSE k \in 1..Len(living) : living[k] = i], cover)
                         ELSE org[i]]
           nAdults == NumAdults(living, org, stepped)
           nNew == ActualNewSeedlings(nAdults, nTrees, cover)
       IN
       /\ Len(org) + nNew <= MaxOrgs
       /\ \E ages \in [1..nNew -> InitialAges], frolls \in [1..nNew -> Rolls] :
            /\ born' = CreateTrees(has_fire, fireSeverity, nNew, ages, frolls)
            /\ org' = stepped \o Attributes(born')
            /\ NativeTree' = NativeTree \o [i \in 1..nNew |-> Len(org) + i]
       /\ stepTrees' = living
       /\ deathRoll' = rolls
       /\ stepCount' = count
       /\ postFireBonus' = bonus
       /\ activeRemoval' = removal
       /\ numTrees' = nTrees
       /\ numAdults' = nAdults
       /\ roomForSeedlings' = RoomForSeedlings(nTrees)
       /\ actualNewSeedlings' = nNew
       /\ rawCover' = raw
       /\ invasiveCover' = cover
  /\ fireSeverity' = KeepPrior(fireSeverity)
  /\ seedingBoost' = KeepPrior(seedingBoost)
  /\ UNCHANGED <<simPhase, scen, evalOrder>>

-----------------------------------------------------------------------------
\* Two patches side by side: the scenarios of SCENARIOS that are declared with
\* the same has_fire and removal_effort and another seeding_boost, fed the same
\* external severity and the same sampled ages and rolls.

\* (name, name of the scenario with seeding added)
BoostPairs == { << "fire_only", "fire_seeding" >>, << "fire_removal", "fire_both" >> }

\* the init event of the second patch, on the draws of the first
TwinPatchInit(t, external, created) ==
  LET sc == SCENARIOS[t.scen]
      sev == FireSeverityInit(sc.has_fire, external)
      n == params.initialTreesPerPatch
      b == CreateTrees(sc.has_fire, sev, n,
                       [i \in 1..n |-> created[i].age],
                       [i \in 1..n |-> created[i].fireDeathRoll])
  IN [ t EXCEPT !.seedingBoost = sc.seeding_boost,
                !.fireSeverity = sev,
                !.org = Attributes(b),
                !.NativeTree = [i \in 1..n |-> i],
                !.invasiveCover = InvasiveInit(sc.has_fire, sev),
                !.stepCount = 0 ]

\* one timestep of the second patch, on the draws of the first: rolls by
\* position in the living population, created by position among the recruits
\* (a draw the first patch did not make is taken as 0)
TwinPatchStep(t, rolls, created) ==
  LET sc == SCENARIOS[t.scen]
      living == NativeTreeStart(t.NativeTree, t.org)
      count == t.stepCount + 1
      bonus == PostFireBonus(sc.has_fire, count)
      removal == ActiveRemoval(sc.removal_effort, count)
      nTrees == Len(living)
      raw == RawCover(t.invasiveCover, nTrees, bonus, removal)
      cover == InvasiveCoverStep(raw)
      roll(k) == IF k \in DOMAIN rolls THEN rolls[k] ELSE 0
      stepped == [i \in 1..Len(t.org) |->
                    IF \E k \in 1..Len(living) : living[k] = i
                    THEN TreeStep(t.org[i],
                           roll(CHOOSE k \in 1..Len(living) : living[k] = i), cover)
                    ELSE t.org[i]]
      nAdults == NumAdults(living, t.org, stepped)
      nNew == ActualNewSeedlings(nAdults, nTrees, cover)
      b == CreateTrees(sc.has_fire, t.fireSeverity, nNew,
             [i \in 1..nNew |-> IF i \in DOMAIN created THEN created[i].age ELSE 0],
             [i \in 1..nNew |-> IF i \in DOMAIN created THEN created[i].fireDeathRoll ELSE 0])
  IN [ t EXCEPT !.seedingBoost = KeepPrior(@),
                !.fireSeverity = KeepPrior(@),
                !.org = stepped \o Attributes(b),
                !.NativeTree = @ \o [i \in 1..nNew |-> Len(t.org) + i],
                !.stepTrees = living,
                !.stepCount = count,
                !.postFireBonus = bonus,
                !.activeRemoval = removal,
                !.numTrees = nTrees,
                !.numAdults = nAdults,
                !.actualNewSeedlings = nNew,
                !.rawCover = raw,
                !.invasiveCover = cover ]

\* both patches before their init events
TwinInit ==
  /\ SimInit
  /\ \E pair \in BoostPairs : SCENARIOS[scen].name = pair[1]

\* the init event of both patches
PairInit ==
  /\ PatchInit
  /\ \E pair \in BoostPairs, j \in DOMAIN SCENARIOS, external \in SeverityData :
       /\ SCENARIOS[scen].name = pair[1]
       /\ SCENARIOS[j].name = pair[2]
       /\ fireSeverity' = FireSeverityInit(has_fire, external)
       /\ twin' = TwinPatchInit([twin EXCEPT !.scen = j], external, born')

\* one timestep of both patches
PairStep ==
  /\ Step
  /\ twin' = TwinPatchStep(twin, deathRoll', born')

-----------------------------------------------------------------------------
\* generate_model: the parameters it extracts, in the order of lines 60-104

RequiredParams ==
  << "totalSteps", "initialTreesPerPatch", "maxTreesPerPatch",
     "seedlingToJuvenileAge", "juvenileToAdultAge",
     "seedlingBaseMortality", "juvenileBaseMortality", "adultBaseMortality",
     "seedlingInvasivePressure", "invasivePressureThreshold",
     "fireHighSeedling", "fireHighJuvenile", "fireHighAdult",
     "fireMediumSeedling", "fireMediumJuvenile", "fireMediumAdult",
     "fireLowSeedling", "fireLowJuvenile", "fireLowAdult",
     "highSeverityThreshold", "mediumSeverityThreshold",
     "baselineInvasiveCover", "fireHighInvasiveCover", "fireMediumInvasiveCover",
     "fireLowInvasiveCover", "establishmentThreshold", "invasiveBaseGrowthRate",
     "postFireGrowthBonus", "postFireBonusDuration", "treeSuppression",
     "removalDuration", "initialAgeMin", "initialAgeMax" >>

AllParams == {RequiredParams[i] : i \in DOMAIN RequiredParams}

\* the parameters main prints before the loop (lines 316-319)
KeyParams == << "fireHighInvasiveCover", "fireMediumInvasiveCover",
                "fireLowInvasiveCover", "establishmentThreshold" >>

\* params[k] for each k of names in turn: TRUE when one lookup raises KeyError
RaisesKeyError(names, keys) == \E i \in DOMAIN names : names[i] \notin keys

\* mutant of generate_model: the fire parameters are looked up only with fire
generate_model_LazyFire(scenario_name, fire, boost, effort, keys) ==
  IF \E i \in DOMAIN RequiredParams :
       /\ RequiredParams[i] \notin keys
       /\ (fire \/ RequiredParams[i] \notin
             {"fireHighSeedling", "fireHighJuvenile", "fireHighAdult",
              "fireMediumSeedling", "fireMediumJuvenile", "fireMediumAdult",
              "fireLowSeedling", "fireLowJuvenile", "fireLowAdult"})
  THEN [raised |-> TRUE]
  ELSE [raised |-> FALSE,
        model |-> [scenario_name |-> scenario_name, has_fire |-> fire,
                   seeding_boost |-> boost, removal_effort |-> effort]]

\* generate_model: every parameter is extracted before the model text is
\* built, whatever has_fire is; the result is the model text or the KeyError
generate_model(scenario_name, fire, boost, effort, keys) ==
  IF RaisesKeyError(RequiredParams, keys)
  THEN [raised |-> TRUE]
  ELSE [raised |-> FALSE,
        model |-> [scenario_name |-> scenario_name, has_fire |-> fire,
                   seeding_boost |-> boost, removal_effort |-> effort]]

-----------------------------------------------------------------------------
\* files of RESULTS_DIR

NoFile == [exists |-> FALSE]

Header == << "step", "numAlive", "invasiveCover" >>

\* n rows of an output file of scenario name; gen tells the rows of this run's
\* engine ("run") from those of a file left by an earlier run ("old")
FileRows(name, gen, n) == [k \in 1..n |-> [file |-> name, gen |-> gen, line |-> k]]

File(name, gen, n) == [exists |-> TRUE, header |-> Header, rows |-> FileRows(name, gen, n)]

ScenarioNames == {SCENARIOS[i].name : i \in DOMAIN SCENARIOS}

\* what the engine may leave at the scenario's output path, by exit code: a
\* run that exits 0 wrote its rows; a failed run wrote nothing or a part
EngineOutput(name, exit, before) ==
  IF exit = 0
  THEN {File(name, "run", n) : n \in 1..MaxRows}
  ELSE {before, File(name, "run", 1)}

\* return value of run_scenario: result.returncode != 0 -> False
ReturnValue(exit) == exit = 0

\* mutant of CountSuccess: every scenario run is counted
CountSuccess_Always(count, ok) == count + 1

\* "if run_scenario(...): success_count += 1"
CountSuccess(count, ok) == IF ok THEN count + 1 ELSE count

\* mutant of SkipMissing: the file is skipped without the warning
SkipMissing_NoWarning(acc, scenario_name) == acc

\* "if not os.path.exists(csv_path): print(Warning ...); continue"
SkipMissing(acc, scenario_name) == [acc EXCEPT !.warned = Append(@, scenario_name)]

\* "if header is None: header = reader.fieldnames + ['scenario']"
FirstHeader(header, fieldnames) ==
  IF header = << >> THEN fieldnames \o << "scenario" >> ELSE header

\* mutant of TagRows: every row is tagged with the first scenario's name
TagRows_FirstName(rows, scenario_name) ==
  [k \in 1..Len(rows) |->
     [file |-> rows[k].file, gen |-> rows[k].gen, line |-> rows[k].line,
      scenario |-> SCENARIOS[1].name]]

\* "for row in reader: row['scenario'] = scenario_name"
TagRows(rows, scenario_name) ==
  [k \in 1..Len(rows) |->
     [file |-> rows[k].file, gen |-> rows[k].gen, line |-> rows[k].line,
      scenario |-> scenario_name]]

\* mutant of AppendRows: a file's rows are put in front of the rows read so far
AppendRows_Prepend(all_rows, rows) == rows \o all_rows

\* "all_rows.append(row)" for each row of the file in turn
AppendRows(all_rows, rows) == all_rows \o rows

\* combine_results, the loop over SCENARIOS up to position i: all_rows, header
\* and the warnings printed
RECURSIVE CombineLoop(_, _)
CombineLoop(i, files) ==
  IF i = 0 THEN [all_rows |-> << >>, header |-> << >>, warned |-> << >>]
  ELSE LET acc == CombineLoop(i - 1, files)
           scenario_name == SCENARIOS[i].name
           f == files[scenario_name]
       IN IF ~f.exists
          THEN SkipMissing(acc, scenario_name)
          ELSE [acc EXCEPT
                  !.header = FirstHeader(@, f.header),
                  !.all_rows = AppendRows(@, TagRows(f.rows, scenario_name))]

\* combine_results: the combined file after the call ("if all_rows:" guards the write)
combine_results(files, before) ==
  LET acc == CombineLoop(Len(SCENARIOS), files)
  IN IF acc.all_rows # << >>
     THEN [exists |-> TRUE, header |-> acc.header, rows |-> acc.all_rows]
     ELSE before

-----------------------------------------------------------------------------
\* main

\* mutant of model_path: every scenario's model is written to one path
model_path_Shared(scenario_name) == << "/workspace/scenario", ".josh" >>

\* model_path = f"/workspace/scenario_{scenario_name}.josh"
model_path(scenario_name) == << "/workspace/scenario_", scenario_name, ".josh" >>

\* no model file written, no run_scenario call started
TaskIdle ==
  /\ modelStore = [p \in {model_path(n) : n \in ScenarioNames} |-> NoFile]
  /\ task = [n \in ScenarioNames |-> [at |-> "new", ran |-> NoFile, exit |-> 0]]

OrchInit ==
  /\ pc = "start"
  /\ paramKeys \in {AllParams} \cup {AllParams \ {k} : k \in AllParams}
  /\ idx = 1
  /\ success_count = 0
  /\ modelFiles = {}
  /\ engineCalls = << >>
  /\ \E old \in SUBSET ScenarioNames :
       resultFiles = [n \in ScenarioNames |-> IF n \in old THEN File(n, "old", 1) ELSE NoFile]
  /\ combined = NoFile
  /\ warned = << >>
  /\ TaskIdle

\* main before the loop: parse_jshc, the prints of the key parameters, makedirs
MainStart ==
  /\ pc = "start"
  /\ pc' = IF RaisesKeyError(KeyParams, paramKeys) THEN "aborted" ELSE "loop"
  /\ success_count' = 0
  /\ idx' = 1
  /\ UNCHANGED <<paramKeys, modelFiles, engineCalls, resultFiles, combined, warned,
                 modelStore, task>>

\* one iteration of the loop of main: run_scenario (generate_model, the write
\* of the model file, the engine run) and the count of its return value
RunScenario ==
  /\ pc = "loop"
  /\ idx <= Len(SCENARIOS)
  /\ LET sc == SCENARIOS[idx]
         gen == generate_model(sc.name, sc.has_fire, sc.seeding_boost,
                               sc.removal_effort, paramKeys)
     IN IF gen.raised
        THEN /\ pc' = "aborted"
             /\ UNCHANGED <<idx, success_count, modelFiles, engineCalls, resultFiles>>
        ELSE \E exit \in {0, 1} :
               \E out \in EngineOutput(sc.name, exit, resultFiles[sc.name]) :
                 /\ modelFiles' = modelFiles \cup {sc.name}
                 /\ engineCalls' = Append(engineCalls, [name |-> sc.name, exit |-> exit])
                 /\ resultFiles' = [resultFiles EXCEPT ![sc.name] = out]
                 /\ success_count' = CountSuccess(success_count, ReturnValue(exit))
                 /\ idx' = idx + 1
                 /\ pc' = "loop"
  /\ UNCHANGED <<paramKeys, combined, warned, modelStore, task>>

\* main after the loop: "if success_count > 0: combine_results()"
MainFinish ==
  /\ pc = "loop"
  /\ idx > Len(SCENARIOS)
  /\ combined' = IF success_count > 0 THEN combine_results(resultFiles, combined)
                 ELSE combined
  /\ warned' = IF success_count > 0 THEN CombineLoop(Len(SCENARIOS), resultFiles).warned
               ELSE warned
  /\ pc' = "done"
  /\ UNCHANGED <<paramKeys, idx, success_count, modelFiles, engineCalls, resultFiles,
                 modelStore, task>>

-----------------------------------------------------------------------------
\* combine_results called on its own, on any content of RESULTS_DIR

\* the output files the call may find: each absent, or with 0..MaxRows rows
CombineInit ==
  /\ pc = "combine"
  /\ paramKeys = AllParams /\ idx = 1 /\ success_count = 0
  /\ modelFiles = {} /\ engineCalls = << >>
  /\ \E rows \in [ScenarioNames -> (-1)..MaxRows] :
       resultFiles = [n \in ScenarioNames |->
                        IF rows[n] < 0 THEN NoFile ELSE File(n, "run", rows[n])]
  /\ combined = NoFile
  /\ warned = << >>
  /\ TaskIdle

CombineCall ==
  /\ pc = "combine"
  /\ combined' = combine_results(resultFiles, combined)
  /\ warned' = CombineLoop(Len(SCENARIOS), resultFiles).warned
  /\ pc' = "done"
  /\ UNCHANGED <<paramKeys, idx, success_count, modelFiles, engineCalls, resultFiles,
                 modelStore, task>>

-----------------------------------------------------------------------------
\* the five run_scenario calls of main running side by side, each in two
\* steps: the model file is generated and written; the engine is run on it

ParInit ==
  /\ pc = "pool"
  /\ paramKeys = AllParams /\ idx = 1 /\ success_count = 0
  /\ modelFiles = {} /\ engineCalls = << >>
  /\ resultFiles = [n \in ScenarioNames |-> NoFile]
  /\ combined = NoFile
  /\ warned = << >>
  /\ TaskIdle

\* run_scenario up to the write of the model file
ParGenerate(i) ==
  LET sc == SCENARIOS[i]
      gen == generate_model(sc.name, sc.has_fire, sc.seeding_boost,
                            sc.removal_effort, paramKeys)
  IN /\ pc = "pool"
     /\ task[sc.name].at = "new"
     /\ ~gen.raised
     /\ modelStore' = [modelStore EXCEPT ![model_path(sc.name)] =
                         [exists |-> TRUE, model |-> gen.model]]
     /\ modelFiles' = modelFiles \cup {sc.name}
     /\ task' = [task EXCEPT ![sc.name].at = "written"]
     /\ UNCHANGED <<pc, paramKeys, idx, success_count, engineCalls, resultFiles,
                    combined, warned>>

\* run_scenario from subprocess.run on: the engine reads the file at model_path
\* and writes the output file the model's exportFiles.patch names
ParEngine(i) ==
  LET sc == SCENARIOS[i]
      read == modelStore[model_path(sc.name)].model
  IN /\ pc = "pool"
     /\ task[sc.name].at = "written"
     /\ \E exit \in {0, 1} :
          \E out \in EngineOutput(read.scenario_name, exit, resultFiles[read.scenario_name]) :
            /\ resultFiles' = [resultFiles EXCEPT ![read.scenario_name] = out]
            /\ task' = [task EXCEPT ![sc.name] = [at |-> "done", ran |-> read, exit |-> exit]]
            /\ success_count' = CountSuccess(success_count, ReturnValue(exit))
     /\ UNCHANGED <<pc, paramKeys, idx, modelFiles, engineCalls, combined, warned, modelStore>>

\* main after every call has returned
ParFinish ==
  /\ pc = "pool"
  /\ \A n \in ScenarioNames : task[n].at = "done"
  /\ combined' = IF success_count > 0 THEN combine_results(resultFiles, combined)
                 ELSE combined
  /\ warned' = IF success_count > 0 THEN CombineLoop(Len(SCENARIOS), resultFiles).warned
               ELSE warned
  /\ pc' = "done"
  /\ UNCHANGED <<paramKeys, idx, success_count, modelFiles, engineCalls, resultFiles,
                 modelStore, task>>

-----------------------------------------------------------------------------
\* Specifications: the simulation of one patch, and the orchestration

SimIdle ==
  /\ simPhase = "new" /\ scen = 1 /\ evalOrder = "patchFirst" /\ fireSeverity = 0
  /\ seedingBoost = 0 /\ twin = TwinIdle
  /\ org = << >> /\ born = << >> /\ deathRoll = << >>
  /\ NativeTree = << >> /\ stepTrees = << >>
  /\ invasiveCover = 0 /\ rawCover = 0 /\ stepCount = 0
  /\ numAdults = 0 /\ numTrees = 0 /\ roomForSeedlings = 0 /\ actualNewSeedlings = 0
  /\ postFireBonus = 0 /\ activeRemoval = 0

OrchIdle ==
  /\ pc = "start" /\ paramKeys = AllParams /\ idx = 1 /\ success_count = 0
  /\ modelFiles = {} /\ engineCalls = << >>
  /\ resultFiles = [n \in ScenarioNames |-> NoFile]
  /\ combined = NoFile
  /\ warned = << >>
  /\ TaskIdle

InitSim == SimInit /\ OrchIdle

NextSim ==
  \/ PatchInit /\ UNCHANGED <<orchVars, twin>>
  \/ Step /\ UNCHANGED <<orchVars, twin>>

SpecSim == InitSim /\ [][NextSim]_vars

InitOrch == OrchInit /\ SimIdle

NextOrch ==
  \/ MainStart /\ UNCHANGED simVars
  \/ RunScenario /\ UNCHANGED simVars
  \/ MainFinish /\ UNCHANGED simVars

SpecOrch == InitOrch /\ [][NextOrch]_vars

InitTwin == TwinInit /\ OrchIdle

NextTwin ==
  \/ PairInit /\ UNCHANGED orchVars
  \/ PairStep /\ UNCHANGED orchVars

SpecTwin == InitTwin /\ [][NextTwin]_vars

InitCombine == CombineInit /\ SimIdle

NextCombine == CombineCall /\ UNCHANGED simVars

SpecCombine == InitCombine /\ [][NextCombine]_vars

InitPar == ParInit /\ SimIdle

NextPar ==
  \/ \E i \in DOMAIN SCENARIOS : ParGenerate(i) /\ UNCHANGED simVars
  \/ \E i \in DOMAIN SCENARIOS : ParEngine(i) /\ UNCHANGED simVars
  \/ ParFinish /\ UNCHANGED simVars

SpecPar == InitPar /\ [][NextPar]_vars
-----------------------------------------------------------------------------
\* Properties

MinOf(a, b) == IF a < b THEN a ELSE b
MaxOf(a, b) == IF a > b THEN a ELSE b
InSeq(x, s) == \E k \in DOMAIN s : s[k] = x
StageRank(s) == IF s = "Seedling" THEN 1 ELSE IF s = "Juvenile" THEN 2 ELSE 3

C2_StageForwardOnlyAlive ==
  [][\A i \in DOMAIN org :
       /\ StageRank(org'[i].state) >= StageRank(org[i].state)
       /\ StageRank(org'[i].state) <= StageRank(org[i].state) + 1
       /\ org[i].state = "Adult" => org'[i].state = "Adult"
       /\ org'[i].state # org[i].state => org'[i].alive]_vars

\* C2 witness: an organism that died in the last step at an age past the
\* Seedling threshold and is still a Seedling.
C2_Witness ==
  /\ stepCount >= 1
  /\ \E i \in DOMAIN org :
       /\ InSeq(i, stepTrees)
       /\ ~org[i].alive
       /\ org[i].state = "Seedling"
       /\ org[i].age >= params.seedlingToJuvenileAge

\* C3: an organism that is dead at the end of a step (or of initialization) is
\* not in the living population of the next step and is still dead after it,
\* also when that step's end event appends new organisms.
C3_DeathAbsorbing ==
  [][\A i \in DOMAIN org :
       ~org[i].alive => (~org'[i].alive /\ ~InSeq(i, stepTrees'))]_vars

\* C3 witness: after a step that created an organism, an organism of the
\* patch's collection that was dead before the step: out of the step's living
\* population and dead.
C3_Witness ==
  /\ stepCount >= 2
  /\ actualNewSeedlings > 0
  /\ \E i \in DOMAIN org :
       InSeq(i, NativeTree) /\ ~InSeq(i, stepTrees) /\ ~org[i].alive /\ i <= Len(org) - Len(born)

\* C4: the number of organisms a step creates is min(numAdults,
\* maxTreesPerPatch - numTrees) when invasiveCover < establishmentThreshold and
\* that minimum is positive, and 0 otherwise; it is never negative.
C4_SeedlingCount ==
  stepCount >= 1 =>
    LET m == MinOf(numAdults, params.maxTreesPerPatch - numTrees) IN
    /\ actualNewSeedlings =
         (IF invasiveCover < params.establishmentThreshold /\ m > 0 THEN m ELSE 0)
    /\ actualNewSeedlings >= 0
    /\ Len(born) = actualNewSeedlings

\* C4 witness: a step with more adults than room, which created as many
\* organisms as there was room for.
C4_Witness ==
  /\ stepCount >= 1
  /\ numAdults > roomForSeedlings
  /\ roomForSeedlings > 0
  /\ actualNewSeedlings = roomForSeedlings

\* the declared outcome of a run: rows of the combined file
CombinedRowCount == IF combined.exists THEN Len(combined.rows) ELSE 0

\* rows of the output files of the scenarios whose engine run exited 0, over
\* the first k engine calls
RECURSIVE SucceededRowCount(_)
SucceededRowCount(k) ==
  IF k = 0 THEN 0
  ELSE SucceededRowCount(k - 1)
       + (IF engineCalls[k].exit = 0 /\ resultFiles[engineCalls[k].name].exists
          THEN Len(resultFiles[engineCalls[k].name].rows) ELSE 0)

\* C5: after main finishes, the combined dataset has as many rows as the
\* output files of the scenarios that succeeded in this run have together; a
\* scenario whose engine run failed contributes none, whatever is on disk.
C5_FailedScenariosExcluded ==
  pc = "done" => CombinedRowCount = SucceededRowCount(Len(engineCalls))

\* C6: main invokes the engine once per scenario, in declaration order,
\* whatever the earlier exit codes were, and success_count is the number of
\* invocations that exited 0; at the end all five scenarios were invoked.
C6_EachScenarioOnce ==
  pc \in {"loop", "done"} =>
    /\ Len(engineCalls) = idx - 1
    /\ \A k \in DOMAIN engineCalls : engineCalls[k].name = SCENARIOS[k].name
    /\ success_count = Cardinality({k \in DOMAIN engineCalls : engineCalls[k].exit = 0})
    /\ pc = "done" => Len(engineCalls) = Len(SCENARIOS)

\* C6 witness: main finished after a failed first scenario and a successful last one.
C6_Witness ==
  /\ pc = "done"
  /\ engineCalls[1].exit = 1
  /\ engineCalls[Len(SCENARIOS)].exit = 0
  /\ success_count = 2

\* C7: with a required parameter missing from the parsed set, no model file
\* is written, the engine is never invoked, and main does not complete.
C7_MissingParameterFatal ==
  AllParams \ paramKeys # {} =>
    /\ modelFiles = {}
    /\ engineCalls = << >>
    /\ pc \in {"start", "loop", "aborted"}
    /\ idx = 1
    /\ ~combined.exists

\* C7 witness: main aborted in generate_model of the first scenario (no fire)
\* on a missing fire-mortality parameter.
C7_Witness == pc = "aborted" /\ "fireHighSeedling" \notin paramKeys /\ modelFiles = {}

\* C8: every organism a step's recruitment creates starts at age 0 as a
\* Seedling and is alive (no birth-time fire-mortality roll applies to it).
C8_RecruitsAreNewSeedlings ==
  stepCount >= 1 =>
    \A k \in DOMAIN born :
      born[k].age = 0 /\ born[k].state = "Seedling" /\ born[k].alive

\* the severity tier by strictly-greater comparisons
SeverityTier(sev) ==
  IF sev > params.highSeverityThreshold THEN "high"
  ELSE IF sev > params.mediumSeverityThreshold THEN "medium" ELSE "low"

\* the fire-mortality percentage of a tier and a stage
TierMortality(tier, state) ==
  IF tier = "high"
  THEN [Seedling |-> params.fireHighSeedling, Juvenile |-> params.fireHighJuvenile,
        Adult |-> params.fireHighAdult][state]
  ELSE IF tier = "medium"
  THEN [Seedling |-> params.fireMediumSeedling, Juvenile |-> params.fireMediumJuvenile,
        Adult |-> params.fireMediumAdult][state]
  ELSE [Seedling |-> params.fireLowSeedling, Juvenile |-> params.fireLowJuvenile,
        Adult |-> params.fireLowAdult][state]

\* C9: with fire, the fire mortality of a created organism is the percentage
\* of its stage in the tier of the patch's severity, the tier chosen by
\* strictly-greater comparisons (a severity equal to a threshold is in the
\* next-lower tier).
C9_FireMortalityTier ==
  (simPhase = "run" /\ has_fire) =>
    \A k \in DOMAIN born :
      /\ born[k].fireMortality = TierMortality(SeverityTier(fireSeverity), born[k].state)
      /\ fireSeverity = params.highSeverityThreshold =>
           born[k].fireMortality = TierMortality("medium", born[k].state)
      /\ fireSeverity = params.mediumSeverityThreshold =>
           born[k].fireMortality = TierMortality("low", born[k].state)

\* C9 witness: an Adult created in a patch whose severity equals the high
\* threshold got the medium tier's Adult percentage.
C9_Witness ==
  /\ simPhase = "run" /\ has_fire
  /\ fireSeverity = params.highSeverityThreshold
  /\ \E k \in DOMAIN born :
       born[k].state = "Adult" /\ born[k].fireMortality = params.fireMediumAdult

\* C10: without fire the patch's fireSeverity is 0 at every step and every
\* organism created at initialization is alive after creation, whatever its
\* fire roll.
C10_NoFireNoBirthDeath ==
  (simPhase = "run" /\ ~has_fire) =>
    /\ fireSeverity = 0
    /\ stepCount = 0 => \A k \in DOMAIN born : born[k].alive

ScenIndex(name) == CHOOSE i \in DOMAIN SCENARIOS : SCENARIOS[i].name = name

\* the rows of a file, none for a file that does not exist
RowsOf(f) == IF f.exists THEN f.rows ELSE << >>

\* the output files of the first k scenarios alone
UpTo(k, files) ==
  [n \in ScenarioNames |-> IF ScenIndex(n) <= k THEN files[n] ELSE NoFile]

\* the rows of the i-th scenario's output file, each with its scenario name
OwnRows(i, files) ==
  LET r == RowsOf(files[SCENARIOS[i].name])
  IN [k \in 1..Len(r) |-> [file |-> r[k].file, gen |-> r[k].gen, line |-> r[k].line,
                            scenario |-> SCENARIOS[i].name]]

\* C13: for every prefix of the scenario list, the rows combine_results gives
\* for the prefix are the rows it gives for the prefix without its last
\* scenario followed by that scenario's rows; so is the combined file written.
C13_CombineOrderStable ==
  pc = "done" =>
    /\ \A k \in 1..Len(SCENARIOS) :
         RowsOf(combine_results(UpTo(k, resultFiles), NoFile))
           = RowsOf(combine_results(UpTo(k - 1, resultFiles), NoFile))
               \o OwnRows(k, resultFiles)
    /\ RowsOf(combined)
         = RowsOf(combine_results(UpTo(Len(SCENARIOS) - 1, resultFiles), NoFile))
             \o OwnRows(Len(SCENARIOS), resultFiles)

\* C13 witness: a combined file made of rows of the first three scenarios, each
\* of which has rows.
C13_Witness ==
  /\ pc = "done" /\ combined.exists
  /\ \A i \in 1..3 : Len(RowsOf(resultFiles[SCENARIOS[i].name])) >= 1
  /\ Len(combined.rows) >= 3

\* the first scenario of the list whose engine run exited with 0
FirstSuccessful ==
  CHOOSE i \in DOMAIN engineCalls :
    /\ engineCalls[i].exit = 0
    /\ \A j \in 1..(i - 1) : engineCalls[j].exit # 0

C15_MissingFilesSkipped ==
  /\ pc \in {"combine", "done"}
  /\ pc = "combine" => ENABLED NextCombine
  /\ pc = "done" =>
       /\ \A n \in ScenarioNames : ~resultFiles[n].exists <=> InSeq(n, warned)
       /\ \A j, k \in DOMAIN warned : j < k => ScenIndex(warned[j]) < ScenIndex(warned[k])
       /\ \A n \in ScenarioNames :
            Cardinality({k \in DOMAIN RowsOf(combined) : combined.rows[k].scenario = n})
              = Len(RowsOf(resultFiles[n]))
       /\ (\A n \in ScenarioNames : ~resultFiles[n].exists) => combined = NoFile

\* C15 witness: the first and the third file absent, both warned of, and the
\* rows of the second and of the last scenario in the combined file.
C15_Witness ==
  /\ pc = "done"
  /\ warned = << SCENARIOS[1].name, SCENARIOS[3].name >>
  /\ combined.exists
  /\ combined.rows[1].scenario = SCENARIOS[2].name
  /\ combined.rows[Len(combined.rows)].scenario = SCENARIOS[Len(SCENARIOS)].name

\* the model generate_model returns for a scenario of SCENARIOS
OwnModel(n) ==
  LET sc == SCENARIOS[ScenIndex(n)]
  IN generate_model(sc.name, sc.has_fire, sc.seeding_boost, sc.removal_effort, AllParams).model

\* C16: however the five run_scenario calls interleave, the parameters stay as
\* parsed, a scenario's model file holds the model generated for it from the
\* time it is written, its output file is written by its own engine run alone,
\* that run read the scenario's own model, and the combined file is the one
\* combine_results gives for these output files: all as in the sequential order.
C16_RunsIndependent ==
  /\ paramKeys = AllParams
  /\ \A n \in ScenarioNames :
       /\ task[n].at # "new" =>
            modelStore[model_path(n)] = [exists |-> TRUE, model |-> OwnModel(n)]
       /\ task[n].at # "done" => resultFiles[n] = NoFile
       /\ task[n].at = "done" =>
            /\ task[n].ran = OwnModel(n)
            /\ resultFiles[n] \in EngineOutput(n, task[n].exit, NoFile)
  /\ pc = "done" =>
       combined = IF \E n \in ScenarioNames : task[n].exit = 0
                  THEN combine_results(resultFiles, NoFile) ELSE NoFile

\* C16 witness: the last scenario's run has finished and written its output
\* while the first scenario's model file is written and its engine not yet run.
C16_Witness ==
  /\ task[SCENARIOS[Len(SCENARIOS)].name].at = "done"
  /\ resultFiles[SCENARIOS[Len(SCENARIOS)].name].exists
  /\ task[SCENARIOS[1].name].at = "written"
  /\ task[SCENARIOS[2].name].at = "new"

TierCover(tier) ==
  IF tier = "high" THEN params.fireHighInvasiveCover
  ELSE IF tier = "medium" THEN params.fireMediumInvasiveCover
  ELSE params.fireLowInvasiveCover

\* C18: the initial invasive cover is the cover of the patch's severity tier
\* with fire (strict comparisons: a severity equal to a threshold takes the
\* lower tier) and baselineInvasiveCover without fire.
C18_InitialCoverTier ==
  (simPhase = "run" /\ stepCount = 0) =>
    /\ has_fire => invasiveCover = TierCover(SeverityTier(fireSeverity))
    /\ (has_fire /\ fireSeverity = params.highSeverityThreshold) =>
         invasiveCover = params.fireMediumInvasiveCover
    /\ (has_fire /\ fireSeverity = params.mediumSeverityThreshold) =>
         invasiveCover = params.fireLowInvasiveCover
    /\ ~has_fire => invasiveCover = params.baselineInvasiveCover

\* C18 witness: a burnt patch whose severity equals the high threshold starts
\* with the medium tier's cover.
C18_Witness ==
  /\ simPhase = "run" /\ stepCount = 0 /\ has_fire
  /\ fireSeverity = params.highSeverityThreshold
  /\ invasiveCover = params.fireMediumInvasiveCover

\* C19: the post-fire bonus of a step is postFireGrowthBonus exactly when the
\* scenario has fire and that step's stepCount < postFireBonusDuration, and 0
\* in every other step.
C19_PostFireBonusWindow ==
  stepCount >= 1 =>
    postFireBonus = (IF SCENARIOS[scen].has_fire /\ stepCount < params.postFireBonusDuration
                     THEN params.postFireGrowthBonus ELSE 0)

\* C19 witness: a fire scenario in a step past the bonus window, bonus 0.
C19_Witness ==
  /\ SCENARIOS[scen].has_fire
  /\ stepCount >= params.postFireBonusDuration
  /\ postFireBonus = 0

\* the per-step mortality of a stage under a patch cover
StageMortality(state, cover) ==
  [Seedling |-> params.seedlingBaseMortality
                  + (IF cover > params.invasivePressureThreshold
                     THEN params.seedlingInvasivePressure ELSE 0),
   Juvenile |-> params.juvenileBaseMortality,
   Adult |-> params.adultBaseMortality][state]

\* C20: in each step an organism of the living population survives iff its
\* draw is strictly greater than the total mortality of the stage it is in
\* when the step begins: base plus invasive pressure (when the patch's cover
\* exceeds the pressure threshold) for a Seedling, one constant for a Juvenile
\* and for an Adult.
C20_SurvivesIffDrawExceeds ==
  [][stepCount' = stepCount + 1 =>
       \A k \in DOMAIN stepTrees' :
         org'[stepTrees'[k]].alive <=>
           deathRoll'[k] > StageMortality(org[stepTrees'[k]].state, invasiveCover')]_vars

\* C20 witness: a step in which the cover equals the pressure threshold and a
\* Seedling that drew base plus pressure survived (no pressure was applied).
C20_Witness ==
  /\ stepCount >= 1
  /\ invasiveCover = params.invasivePressureThreshold
  /\ \E k \in DOMAIN stepTrees :
       /\ deathRoll[k] = params.seedlingBaseMortality + params.seedlingInvasivePressure
       /\ org[stepTrees[k]].state = "Seedling"
       /\ org[stepTrees[k]].alive

\* C21: once the patch is initialised no step changes its fireSeverity, so at
\* every step it has the value the init event gave it.
C21_FireSeverityFixed ==
  [][simPhase = "run" => fireSeverity' = fireSeverity]_vars

\* C21 witness: a burnt patch after its second step, with the severity of the
\* external data.
C21_Witness ==
  /\ has_fire /\ stepCount = 2
  /\ fireSeverity > params.highSeverityThreshold

\* the stage the creation rule gives an organism of an age
DerivedStage(age) ==
  IF age >= params.juvenileToAdultAge THEN "Adult"
  ELSE IF age >= params.seedlingToJuvenileAge THEN "Juvenile"
  ELSE "Seedling"

\* C22: with seedlingToJuvenileAge < juvenileToAdultAge, after the init event
\* and after every step each living organism is in the stage derived from its
\* age and no organism has a negative age; each step adds exactly 1 to the age
\* of every organism of the step's population.
C22_StageMatchesAge ==
  /\ [](( /\ params.seedlingToJuvenileAge < params.juvenileToAdultAge
          /\ simPhase = "run" ) =>
            \A i \in DOMAIN org :
              /\ org[i].age >= 0
              /\ org[i].alive => org[i].state = DerivedStage(org[i].age))
  /\ [][( /\ params.seedlingToJuvenileAge < params.juvenileToAdultAge
          /\ stepCount' = stepCount + 1 ) =>
            \A k \in DOMAIN stepTrees' :
              org'[stepTrees'[k]].age = org[stepTrees'[k]].age + 1]_vars

\* C22 witness: after a step, a living organism of the step's population that
\* has just reached seedlingToJuvenileAge and is a Juvenile.
C22_Witness ==
  /\ stepCount >= 1
  /\ \E k \in DOMAIN stepTrees :
       LET o == org[stepTrees[k]]
       IN o.alive /\ o.age = params.seedlingToJuvenileAge /\ o.state = "Juvenile"

\* the living organisms of the patch's collection
Living == {k \in DOMAIN NativeTree : org[NativeTree[k]].alive}

\* C23: with initialTreesPerPatch <= maxTreesPerPatch, the population a step
\* works on (numTrees, the collection after the start event) and the living
\* organisms after the init event and after every step, recruits included,
\* never number more than maxTreesPerPatch.
C23_PopulationCapped ==
  params.initialTreesPerPatch <= params.maxTreesPerPatch =>
    /\ numTrees <= params.maxTreesPerPatch
    /\ Len(stepTrees) <= params.maxTreesPerPatch
    /\ Cardinality(Living) <= params.maxTreesPerPatch

\* C23 witness: a step with two Adults and room for one organism created one
\* recruit, and the patch holds maxTreesPerPatch living organisms.
C23_Witness ==
  /\ stepCount >= 1
  /\ numAdults > roomForSeedlings /\ roomForSeedlings > 0
  /\ actualNewSeedlings = roomForSeedlings
  /\ Cardinality(Living) = params.maxTreesPerPatch

=============================================================================
